---- MODULE Spec2Model ----
(***************************************************************************)
(* State-timeline engine of src/main.py: the sampling loop (monitor), the  *)
(* scheduler loop (summary_scheduler with daily_rollover_if_needed and the *)
(* three summary jobs), the segment log (save_log / summarize_range) and   *)
(* the asyncio lock STATE_LOCK that the two loops share.                   *)
(*                                                                         *)
(* Time.  time.time() is a float; the model counts it in ticks of 1/Res    *)
(* second, so that int() (truncation to whole seconds) is a real           *)
(* conversion.  Tick 0 is the Kyiv-local midnight that starts Monday       *)
(* 2024-01-01; the zone offset is constant over the modelled days, so      *)
(* datetime.now(KYIV_TZ) and time.time() are the same reading seen as a    *)
(* wall-clock time and as a timestamp.  The clock moves along a finite     *)
(* grid of instants chosen in Init.                                        *)
(*                                                                         *)
(* Atomicity.  asyncio runs one coroutine at a time: the code between two  *)
(* awaits is one action.  Acquiring a free asyncio.Lock does not suspend.  *)
(* Files.  state.json and log.json are read and written without failure.   *)
(* Commands.  handle_update only reads the state (under the lock) and the  *)
(* log; it writes neither and is not part of the model.                    *)
(***************************************************************************)
EXTENDS Integers, Sequences, FiniteSets, TLC

\* ---------------------------------------------------------------- bounds
\* ticks per second
Res == 2
\* upper bound, in seconds, on one bot.send_message call
MaxSendSecs == 5
\* longest log that a query is put to
MaxLogLen == 3

\* ------------------------------------------------------ program constants
CHECK_INTERVAL == 10
DEBOUNCE_INTERVAL == 20
MAX_LOG_DAYS == 60
OFFLINE_TIMEOUT == 30
POLL_TIMEOUT == 15
DAY_SECONDS == 86400
SCHED_SLEEP == 20
SUMMARY_SLEEP == 90

\* Python's None for a timestamp, and for a date string
None == -1
NoDate == <<>>

\* ------------------------------------------------------------ pure helpers
\* int(x): truncation toward zero of a float number of seconds (x in ticks)
int(x) == IF x >= 0 THEN x \div Res ELSE -((-x) \div Res)

\* bool(x) for x a poll result
bool(x) == IF x = "True" THEN "True" ELSE "False"

Secs(s) == s * Res

\* ---- calendar (datetime in KYIV_TZ); \div rounds down, % is non-negative ----
LocalSecond(now) == now \div Res
DayIndex(now) == LocalSecond(now) \div DAY_SECONDS
Hour(now) == (LocalSecond(now) % DAY_SECONDS) \div 3600
Minute(now) == (LocalSecond(now) % 3600) \div 60

\* days of the months of 2024
MonthLen == <<31, 29, 31, 30, 31, 30, 31, 31, 30, 31, 30, 31>>

RECURSIVE MonthDay(_, _)
\* <<month, day-of-month>> of the d-th day (0-based) counted from the 1st of month m
MonthDay(m, d) == IF d < MonthLen[m] THEN <<m, d + 1>> ELSE MonthDay(m + 1, d - MonthLen[m])

\* now.weekday(): Monday is 0
Weekday(now) == DayIndex(now) % 7

\* <<year, month, day>> of a datetime; the days before tick 0 are December 2023
DateOf(now) ==
    IF now >= 0 THEN <<2024>> \o MonthDay(1, DayIndex(now))
    ELSE <<2023, 12, 32 + DayIndex(now)>>

\* now.day
DayOfMonth(now) == DateOf(now)[3]

\* ymd(dt): the "%Y-%m-%d" string, as its three fields
ymd(now) == DateOf(now)

\* start_of_day_kyiv(dt), as a timestamp in ticks
start_of_day_kyiv(now) == Secs(DayIndex(now) * DAY_SECONDS)

\* a variant of the week start that takes Sunday for the first day of the week
start_of_week_kyiv_Sunday(now) ==
    start_of_day_kyiv(now) - Secs(((Weekday(now) + 1) % 7) * DAY_SECONDS)

\* start_of_week_kyiv(dt): Monday 00:00
start_of_week_kyiv(now) == start_of_day_kyiv(now) - Secs(Weekday(now) * DAY_SECONDS)

\* start_of_month_kyiv(dt): the 1st, 00:00
start_of_month_kyiv(now) == start_of_day_kyiv(now) - Secs((DayOfMonth(now) - 1) * DAY_SECONDS)

\* in_window of daily_rollover_if_needed
InRolloverWindow(now) == Hour(now) = 0 /\ 1 <= Minute(now) /\ Minute(now) <= 4

\* in_summary_window of summary_scheduler
InSummaryWindow(now) == Hour(now) = 8 /\ 0 <= Minute(now) /\ Minute(now) <= 4

\* ---- reachability (monitor 348-372, daily_rollover_if_needed 495-507) ----
\* a variant of the reachability update that restarts the streak at every failed poll
OfflineSinceAfter_Restart(ok, off, now_ts) == IF ok THEN None ELSE now_ts

\* offline_since after the reachability update
OfflineSinceAfter(ok, off, now_ts) == IF ok THEN None ELSE IF off = None THEN now_ts ELSE off

\* offline_age = now_ts - float(offline_since or now_ts)
OfflineAge(off, now_ts) == now_ts - (IF off = None \/ off = 0 THEN now_ts ELSE off)

\* forced_offline
ForcedOffline(ok, off, now_ts) == ~ok /\ OfflineAge(off, now_ts) >= Secs(OFFLINE_TIMEOUT)

\* a variant of the effective sample without the grace period: a failed poll reads absent
EffectiveIsLight_NoGrace(ok, light, off, now_ts, last) == IF ok THEN bool(light) ELSE "False"

\* effective_is_light / effective
EffectiveIsLight(ok, light, off, now_ts, last) ==
    IF ok THEN bool(light)
    ELSE IF OfflineAge(off, now_ts) >= Secs(OFFLINE_TIMEOUT) THEN "False" ELSE last

\* now_ts - pending_time >= DEBOUNCE_INTERVAL
DebounceElapsed(now_ts, ptime) == ptime # None /\ now_ts - ptime >= Secs(DEBOUNCE_INTERVAL)

\* ---- log ----
\* a variant of the retention filter that also drops the entry that ends at the cutoff
SelectKept_Strict(lg, cutoff) == SelectSeq(lg, LAMBDA x : x.timestamp > cutoff)

\* the comprehension at 286
SelectKept(lg, cutoff) == SelectSeq(lg, LAMBDA x : x.timestamp >= cutoff)

\* a variant of save_log that stamps the entry with the time of the call, as 280 does
\* when no end_ts is passed
save_log_StampedAtCall(lg, state, duration, end_ts, t) ==
    SelectKept(Append(lg, [timestamp |-> int(t), state |-> bool(state), duration |-> duration]),
               int(t) - MAX_LOG_DAYS * DAY_SECONDS)

\* the log file after save_log(state, duration, end_ts) called when time.time() = t
save_log(lg, state, duration, end_ts, t) ==
    SelectKept(Append(lg, [timestamp |-> int(end_ts), state |-> bool(state), duration |-> duration]),
               int(t) - MAX_LOG_DAYS * DAY_SECONDS)

\* a variant of the segment close whose guard is the truth value of the duration
\* ("if dur_for_log:"), which lets a negative duration through
CloseSegment_Truthy(lg, state, seg_start, now_ts, t) ==
    IF int(now_ts - seg_start) # 0
    THEN save_log(lg, state, int(now_ts - seg_start), now_ts, t)
    ELSE lg

\* a variant of the segment close that calls save_log whatever the duration
CloseSegment_NoGuard(lg, state, seg_start, now_ts, t) ==
    save_log(lg, state, int(now_ts - seg_start), now_ts, t)

\* dur_for_log > 0 guard around save_log
CloseSegment(lg, state, seg_start, now_ts, t) ==
    IF int(now_ts - seg_start) > 0
    THEN save_log(lg, state, int(now_ts - seg_start), now_ts, t)
    ELSE lg

RECURSIVE SumDur_OpenStart(_, _, _, _)
\* a variant of the sum that leaves out the entry that ends at start_ts
SumDur_OpenStart(lg, st, start_ts, end_ts) ==
    IF lg = <<>> THEN 0
    ELSE (IF start_ts < Head(lg).timestamp /\ Head(lg).timestamp < end_ts /\ Head(lg).state = st
          THEN Head(lg).duration ELSE 0) + SumDur_OpenStart(Tail(lg), st, start_ts, end_ts)

RECURSIVE SumDur(_, _, _, _)
\* the loop at 299-305 for the entries of state st
SumDur(lg, st, start_ts, end_ts) ==
    IF lg = <<>> THEN 0
    ELSE (IF start_ts <= Head(lg).timestamp /\ Head(lg).timestamp < end_ts /\ Head(lg).state = st
          THEN Head(lg).duration ELSE 0) + SumDur(Tail(lg), st, start_ts, end_ts)

\* a variant of summarize_range that counts the entry that ends at end_ts as well
summarize_range_Closed(lg, start_ts, end_ts) ==
    <<SumDur(lg, "True", start_ts, end_ts + 1), SumDur(lg, "False", start_ts, end_ts + 1)>>

\* summarize_range(start_ts, end_ts) over the log file: <<light, dark>>
summarize_range(lg, start_ts, end_ts) ==
    <<SumDur(lg, "True", start_ts, end_ts), SumDur(lg, "False", start_ts, end_ts)>>

\* prev_day_range_kyiv(now), in seconds
prev_day_range_kyiv(now) ==
    <<int(start_of_day_kyiv(now) - Secs(DAY_SECONDS)), int(start_of_day_kyiv(now))>>

\* prev_week_range_kyiv(now), in seconds
prev_week_range_kyiv(now) ==
    <<int(start_of_week_kyiv(now) - Secs(7 * DAY_SECONDS)), int(start_of_week_kyiv(now))>>

\* prev_month_range_kyiv(now), in seconds
prev_month_range_kyiv(now) ==
    <<int(start_of_month_kyiv(start_of_month_kyiv(now) - Secs(DAY_SECONDS))),
      int(start_of_month_kyiv(now))>>

\* ------------------------------------------------------------------ state
VARIABLES
    clock,                     \* the real time, in ticks
    grid,                      \* the instants the clock visits in this run
    \* module globals of main.py
    last_online_state, last_change_time, segment_start_time,
    pending_state, pending_time,
    tuya_online, offline_since, last_seen,
    last_rollover_date, last_daily_summary_date,
    last_weekly_summary_date, last_monthly_summary_date,
    log,                       \* content of log.json
    lock,                      \* holder of STATE_LOCK: "none", "monitor", "sched"
    \* monitor(): position and locals; m_send_ok: the last bot.send_message did not raise
    m_pc, m_now_ts, m_tuya_ok, m_is_light, m_wake, m_dur_for_message, m_send_start, m_send_ok,
    \* summary_scheduler(): position and locals
    s_pc, s_now, s_now_ts, s_tuya_ok, s_is_light, s_wake, s_send_start,
    \* history, read by no action
    sent,                      \* every bot.send_message attempt, in order
    hist,                      \* every poll result processed under the lock, in order
    rolled,                    \* every run of the rollover body 480-528, in order
    n_saved,                   \* number of save_log calls
    \* a query to the log or to the calendar, and its answer
    query

globals == <<last_online_state, last_change_time, segment_start_time,
             pending_state, pending_time, tuya_online, offline_since, last_seen>>
guards == <<last_rollover_date, last_daily_summary_date,
            last_weekly_summary_date, last_monthly_summary_date>>
mvars == <<m_pc, m_now_ts, m_tuya_ok, m_is_light, m_wake, m_dur_for_message, m_send_start, m_send_ok>>
svars == <<s_pc, s_now, s_now_ts, s_tuya_ok, s_is_light, s_wake, s_send_start>>
history == <<hist, rolled, n_saved>>
vars == <<clock, grid, globals, guards, log, lock, mvars, svars, sent, history, query>>

\* ------------------------------------------------------------------- lock
MonitorWaiting == m_pc = "wait_lock"
SchedWaiting == s_pc \in {"wait_lock1", "wait_lock2"}

\* a variant of the release that frees the lock without waking the waiter
ReleasedByMonitor_NoHandOver == "none"

\* asyncio.Lock.release(): the lock goes to the waiter, if there is one
ReleasedByMonitor == IF SchedWaiting THEN "sched" ELSE "none"
ReleasedBySched == IF MonitorWaiting THEN "monitor" ELSE "none"

\* results of get_device_online_status(): online, not online, exception
PollResults == {<<TRUE, "True">>, <<TRUE, "False">>, <<FALSE, "None">>}

\* hhmm(seconds): "HH:MM", as its two fields
hhmm(seconds) == <<(seconds \div 60) \div 60, (seconds \div 60) % 60>>

\* the state-change message built at 378 and 412-417
ChangeMsg(new_state, dur) ==
    [kind |-> "change", at |-> clock, to |-> new_state, dur |-> dur, text |-> hhmm(dur)]

\* one processed poll: who polled, its now_ts, the result, the effective sample, the
\* committed state before it, and whether it made the sampling loop send a notification
Sample(src, now_ts, ok, eff, forced, fired) ==
    [src |-> src, t |-> now_ts, ok |-> ok, eff |-> eff, was |-> last_online_state,
     forced |-> forced, fired |-> fired]

\* ---------------------------------------------------------------- monitor
\* leaving the locked block without a commit: save_state(), release, sleep(CHECK_INTERVAL)
MonitorUnlockAndSleep ==
    /\ lock' = ReleasedByMonitor
    /\ m_pc' = "sleep"
    /\ m_wake' = clock + Secs(CHECK_INTERVAL)
    /\ UNCHANGED <<m_dur_for_message, m_send_start, m_send_ok, sent>>

\* monitor 333-443 up to its first await, entered with the lock acquired
MonitorBody(ok, light) ==
    LET now_ts == m_now_ts
        off1 == OfflineSinceAfter(ok, offline_since, now_ts)
        eff == EffectiveIsLight(ok, light, off1, now_ts, last_online_state)
    IN
    IF last_online_state = "None" \/ last_change_time = None
    THEN \* 335-346: first observation; sleeps with the lock held
        /\ last_online_state' = (IF ok THEN bool(light) ELSE "False")
        /\ last_change_time' = now_ts
        /\ segment_start_time' = now_ts
        /\ tuya_online' = ok
        /\ last_seen' = (IF ok THEN now_ts ELSE last_seen)
        /\ offline_since' = (IF ok THEN None
                             ELSE IF offline_since = None \/ offline_since = 0 THEN now_ts
                             ELSE offline_since)
        /\ UNCHANGED <<pending_state, pending_time>>
        /\ lock' = "monitor"
        /\ m_pc' = "sleep_locked"
        /\ m_wake' = clock + Secs(CHECK_INTERVAL)
        /\ hist' = Append(hist, Sample("monitor", now_ts, ok, IF ok THEN bool(light) ELSE "False",
                                       FALSE, FALSE))
        /\ UNCHANGED <<m_dur_for_message, m_send_start, m_send_ok, sent>>
    ELSE
        \* 348-356
        /\ hist' = Append(hist, Sample("monitor", now_ts, ok, eff, ForcedOffline(ok, off1, now_ts),
                                       \/ ForcedOffline(ok, off1, now_ts) /\ last_online_state = "True"
                                       \/ /\ eff # last_online_state
                                          /\ pending_state = eff
                                          /\ DebounceElapsed(now_ts, pending_time)))
        /\ tuya_online' = ok
        /\ last_seen' = (IF ok THEN now_ts ELSE last_seen)
        /\ offline_since' = off1
        /\ UNCHANGED <<last_online_state, last_change_time, segment_start_time>>
        /\ IF ForcedOffline(ok, off1, now_ts) /\ last_online_state = "True"
           THEN \* 375-381: await bot.send_message with the lock held
               /\ m_dur_for_message' = int(now_ts - last_change_time)
               /\ sent' = Append(sent, ChangeMsg("False", int(now_ts - last_change_time)))
               /\ m_send_start' = clock
               /\ m_pc' = "send_forced"
               /\ lock' = "monitor"
               /\ UNCHANGED <<pending_state, pending_time, m_wake, m_send_ok>>
           ELSE IF eff # last_online_state
           THEN IF pending_state # eff
                THEN \* 405-407
                    /\ pending_state' = eff
                    /\ pending_time' = now_ts
                    /\ MonitorUnlockAndSleep
                ELSE IF DebounceElapsed(now_ts, pending_time)
                THEN \* 409-420
                    /\ m_dur_for_message' = int(now_ts - last_change_time)
                    /\ sent' = Append(sent, ChangeMsg(pending_state, int(now_ts - last_change_time)))
                    /\ m_send_start' = clock
                    /\ m_pc' = "send_commit"
                    /\ lock' = "monitor"
                    /\ UNCHANGED <<pending_state, pending_time, m_wake, m_send_ok>>
                ELSE
                    /\ UNCHANGED <<pending_state, pending_time>>
                    /\ MonitorUnlockAndSleep
           ELSE \* 439-441
               /\ pending_state' = "None"
               /\ pending_time' = None
               /\ MonitorUnlockAndSleep

\* 322-331: a new iteration reads the clock and starts the status poll
MonitorStartPoll ==
    /\ m_now_ts' = clock
    /\ m_pc' = "poll"
    /\ UNCHANGED <<m_tuya_ok, m_is_light, m_wake, m_dur_for_message, m_send_start, m_send_ok>>

\* asyncio.sleep(CHECK_INTERVAL) at 445 is over
MonitorWake ==
    /\ m_pc = "sleep"
    /\ clock >= m_wake
    /\ MonitorStartPoll
    /\ UNCHANGED <<query, grid, clock, globals, guards, log, lock, svars, sent, history>>

\* asyncio.sleep(CHECK_INTERVAL) at 345 or 400 is over: "continue" leaves the locked block
MonitorWakeLocked ==
    /\ m_pc = "sleep_locked"
    /\ clock >= m_wake
    /\ lock' = ReleasedByMonitor
    /\ MonitorStartPoll
    /\ UNCHANGED <<query, grid, clock, globals, guards, log, svars, sent, history>>

\* get_device_online_status() returns or raises; then "async with STATE_LOCK"
MonitorPollReturn ==
    /\ m_pc = "poll"
    /\ \E r \in PollResults :
        /\ m_tuya_ok' = r[1]
        /\ m_is_light' = r[2]
        /\ IF lock = "none"
           THEN MonitorBody(r[1], r[2])
           ELSE /\ m_pc' = "wait_lock"
                /\ UNCHANGED <<globals, lock, m_wake, m_dur_for_message, m_send_start, m_send_ok, sent, hist>>
    /\ UNCHANGED <<query, grid, clock, guards, log, svars, m_now_ts, rolled, n_saved>>

\* the lock was handed to the waiting monitor
MonitorLockAcquired ==
    /\ m_pc = "wait_lock"
    /\ lock = "monitor"
    /\ MonitorBody(m_tuya_ok, m_is_light)
    /\ UNCHANGED <<query, grid, clock, guards, log, svars, m_now_ts, m_tuya_ok, m_is_light, rolled, n_saved>>

\* segment_start_time after "if segment_start_time is None" (385, 424, 509)
SegmentStart == IF segment_start_time = None THEN last_change_time ELSE segment_start_time

\* a variant of the commit that stamps the change with the time of the next sample
MonitorCommit_Ahead(new_state) ==
    /\ log' = CloseSegment(log, last_online_state, SegmentStart, m_now_ts, clock)
    /\ n_saved' = n_saved + (IF int(m_now_ts - SegmentStart) > 0 THEN 1 ELSE 0)
    /\ last_online_state' = new_state
    /\ last_change_time' = m_now_ts + Secs(POLL_TIMEOUT + MaxSendSecs + CHECK_INTERVAL)
    /\ segment_start_time' = m_now_ts
    /\ pending_state' = "None"
    /\ pending_time' = None
    /\ UNCHANGED <<tuya_online, offline_since, last_seen>>

\* a variant of the commit that does not record a change whose notification failed
MonitorCommit_IfDelivered(new_state) ==
    IF m_send_ok'
    THEN /\ log' = CloseSegment(log, last_online_state, SegmentStart, m_now_ts, clock)
         /\ n_saved' = n_saved + (IF int(m_now_ts - SegmentStart) > 0 THEN 1 ELSE 0)
         /\ last_online_state' = new_state
         /\ last_change_time' = m_now_ts
         /\ segment_start_time' = m_now_ts
         /\ pending_state' = "None"
         /\ pending_time' = None
         /\ UNCHANGED <<tuya_online, offline_since, last_seen>>
    ELSE UNCHANGED <<log, n_saved, globals>>

\* 383-400 and 421-437: bot.send_message returned or raised (swallowed); commit
MonitorCommit(new_state) ==
    /\ log' = CloseSegment(log, last_online_state, SegmentStart, m_now_ts, clock)
    /\ n_saved' = n_saved + (IF int(m_now_ts - SegmentStart) > 0 THEN 1 ELSE 0)
    /\ last_online_state' = new_state
    /\ last_change_time' = m_now_ts
    /\ segment_start_time' = m_now_ts
    /\ pending_state' = "None"
    /\ pending_time' = None
    /\ UNCHANGED <<tuya_online, offline_since, last_seen>>

MonitorSendForcedReturn ==
    /\ m_pc = "send_forced"
    /\ \E delivered \in BOOLEAN : m_send_ok' = delivered /\ MonitorCommit("False")
    /\ m_pc' = "sleep_locked"
    /\ m_wake' = clock + Secs(CHECK_INTERVAL)
    /\ UNCHANGED <<query, grid, clock, guards, lock, svars, sent, hist, rolled,
                   m_now_ts, m_tuya_ok, m_is_light, m_dur_for_message, m_send_start>>

MonitorSendCommitReturn ==
    /\ m_pc = "send_commit"
    /\ \E delivered \in BOOLEAN : m_send_ok' = delivered /\ MonitorCommit(pending_state)
    /\ lock' = ReleasedByMonitor
    /\ m_pc' = "sleep"
    /\ m_wake' = clock + Secs(CHECK_INTERVAL)
    /\ UNCHANGED <<query, grid, clock, guards, svars, sent, hist, rolled,
                   m_now_ts, m_tuya_ok, m_is_light, m_dur_for_message, m_send_start>>

\* ------------------------------------------------------------- scheduler
\* the texts built by send_daily_summary / send_weekly_summary / send_monthly_summary
SummaryMsg(kind, now, range) ==
    [kind |-> kind, at |-> clock, date |-> ymd(now), range |-> range,
     light |-> summarize_range(log, range[1], range[2])[1],
     dark |-> summarize_range(log, range[1], range[2])[2]]

\* a variant of the summary window that does not look at the guard dates
SummaryNext_NoGuard(k, now, dd, wd, md) ==
    IF ~InSummaryWindow(now) THEN "sleep_short"
    ELSE IF k <= 1 THEN "send_daily"
    ELSE IF k <= 2 /\ Weekday(now) = 0 THEN "send_weekly"
    ELSE IF k <= 3 /\ DayOfMonth(now) = 1 THEN "send_monthly"
    ELSE "sleep_long"

\* summary_scheduler 602-618 from the k-th "if" of the summary window on, with the
\* guard dates dd, wd, md: the job entered next, or the sleep that ends the iteration
SummaryNext(k, now, dd, wd, md) ==
    IF ~InSummaryWindow(now) THEN "sleep_short"
    ELSE IF k <= 1 /\ dd # ymd(now) THEN "send_daily"
    ELSE IF k <= 2 /\ Weekday(now) = 0 /\ wd # ymd(now) THEN "send_weekly"
    ELSE IF k <= 3 /\ DayOfMonth(now) = 1 /\ md # ymd(now) THEN "send_monthly"
    ELSE "sleep_long"

\* the scheduler goes on from daily_rollover_if_needed's return, or from a summary job's
SchedContinue(k, now, dd, wd, md) ==
    LET nxt == SummaryNext(k, now, dd, wd, md) IN
    /\ s_pc' = (IF nxt \in {"sleep_short", "sleep_long"} THEN "sleep" ELSE nxt)
    /\ s_wake' = (IF nxt = "sleep_short" THEN clock + Secs(SCHED_SLEEP)
                  ELSE IF nxt = "sleep_long" THEN clock + Secs(SUMMARY_SLEEP + SCHED_SLEEP)
                  ELSE s_wake)
    /\ s_send_start' = (IF nxt \in {"sleep_short", "sleep_long"} THEN s_send_start ELSE clock)
    /\ sent' = (IF nxt = "send_daily" THEN Append(sent, SummaryMsg("daily", now, prev_day_range_kyiv(now)))
                ELSE IF nxt = "send_weekly" THEN Append(sent, SummaryMsg("weekly", now, prev_week_range_kyiv(now)))
                ELSE IF nxt = "send_monthly" THEN Append(sent, SummaryMsg("monthly", now, prev_month_range_kyiv(now)))
                ELSE sent)

\* a variant of the rollover that does not look at last_rollover_date
RolloverGuard_NoGuard(now) ==
    /\ s_now_ts' = clock
    /\ s_pc' = "poll"
    /\ UNCHANGED <<s_wake, s_send_start, sent>>

\* daily_rollover_if_needed 465-469: the guard check under the lock, then the poll
RolloverGuard(now) ==
    IF last_rollover_date = ymd(now)
    THEN /\ SchedContinue(1, now, last_daily_summary_date, last_weekly_summary_date,
                          last_monthly_summary_date)
         /\ UNCHANGED <<s_now_ts>>
    ELSE /\ s_now_ts' = clock
         /\ s_pc' = "poll"
         /\ UNCHANGED <<s_wake, s_send_start, sent>>

\* summary_scheduler 595-618: one iteration up to its first await
SchedWake ==
    /\ s_pc = "sleep"
    /\ clock >= s_wake
    /\ s_now' = clock
    /\ IF InRolloverWindow(clock)
       THEN IF lock = "none"
            THEN RolloverGuard(clock)
            ELSE /\ s_pc' = "wait_lock1"
                 /\ UNCHANGED <<s_now_ts, s_wake, s_send_start, sent>>
       ELSE /\ SchedContinue(1, clock, last_daily_summary_date, last_weekly_summary_date,
                             last_monthly_summary_date)
            /\ UNCHANGED <<s_now_ts>>
    /\ UNCHANGED <<query, grid, clock, globals, guards, log, lock, mvars, s_tuya_ok, s_is_light, history>>

\* the lock was handed to the scheduler waiting at 465
SchedGuardAcquired ==
    /\ s_pc = "wait_lock1"
    /\ lock = "sched"
    /\ RolloverGuard(s_now)
    /\ lock' = ReleasedBySched
    /\ UNCHANGED <<query, grid, clock, globals, guards, log, mvars, s_now, s_tuya_ok, s_is_light, history>>

\* a variant of the rollover that restarts the state's age at every rollover
RolloverChangeTime_Always(effective, now_ts) == now_ts

\* last_change_time after 513-525
RolloverChangeTime(effective, now_ts) ==
    IF effective # last_online_state THEN now_ts ELSE last_change_time

\* daily_rollover_if_needed 480-528, entered with the lock acquired
RolloverBody(ok, light) ==
    LET now_ts == s_now_ts
        today == ymd(s_now)
        off1 == OfflineSinceAfter(ok, offline_since, now_ts)
        effective == EffectiveIsLight(ok, light, off1, now_ts, last_online_state)
    IN
    /\ IF last_online_state = "None" \/ last_change_time = None
       THEN \* 482-493
           /\ last_online_state' = (IF ok THEN bool(light) ELSE "False")
           /\ last_change_time' = now_ts
           /\ segment_start_time' = now_ts
           /\ tuya_online' = ok
           /\ last_seen' = (IF ok THEN now_ts ELSE last_seen)
           /\ offline_since' = (IF ok THEN None
                                ELSE IF offline_since = None \/ offline_since = 0 THEN now_ts
                                ELSE offline_since)
           /\ hist' = Append(hist, Sample("rollover", now_ts, ok, IF ok THEN bool(light) ELSE "False",
                                          FALSE, FALSE))
           /\ rolled' = Append(rolled, [now |-> s_now, init |-> TRUE, same |-> FALSE, logged |-> FALSE])
           /\ UNCHANGED <<log, n_saved>>
       ELSE \* 495-525
           /\ hist' = Append(hist, Sample("rollover", now_ts, ok, effective,
                                          ForcedOffline(ok, off1, now_ts), FALSE))
           /\ rolled' = Append(rolled, [now |-> s_now, init |-> FALSE, same |-> effective = last_online_state,
                                     logged |-> int(now_ts - SegmentStart) > 0])
           /\ n_saved' = n_saved + (IF int(now_ts - SegmentStart) > 0 THEN 1 ELSE 0)
           /\ tuya_online' = ok
           /\ last_seen' = (IF ok THEN now_ts ELSE last_seen)
           /\ offline_since' = off1
           /\ log' = CloseSegment(log, last_online_state, SegmentStart, now_ts, clock)
           /\ last_online_state' = effective
           /\ last_change_time' = RolloverChangeTime(effective, now_ts)
           /\ segment_start_time' = now_ts
    /\ last_rollover_date' = today
    /\ UNCHANGED <<pending_state, pending_time, last_daily_summary_date,
                   last_weekly_summary_date, last_monthly_summary_date>>
    /\ SchedContinue(1, s_now, last_daily_summary_date, last_weekly_summary_date,
                     last_monthly_summary_date)

\* get_device_online_status() at 475 returns or raises; then "async with STATE_LOCK" at 480
SchedPollReturn ==
    /\ s_pc = "poll"
    /\ \E r \in PollResults :
        /\ s_tuya_ok' = r[1]
        /\ s_is_light' = r[2]
        /\ IF lock = "none"
           THEN /\ RolloverBody(r[1], r[2])
                /\ UNCHANGED lock
           ELSE /\ s_pc' = "wait_lock2"
                /\ UNCHANGED <<globals, guards, log, lock, s_wake, s_send_start, sent, history>>
    /\ UNCHANGED <<query, grid, clock, mvars, s_now, s_now_ts>>

\* the lock was handed to the scheduler waiting at 480
SchedBodyAcquired ==
    /\ s_pc = "wait_lock2"
    /\ lock = "sched"
    /\ RolloverBody(s_tuya_ok, s_is_light)
    /\ lock' = ReleasedBySched
    /\ UNCHANGED <<query, grid, clock, mvars, s_now, s_now_ts, s_tuya_ok, s_is_light>>

\* send_daily_summary 544-548 after bot.send_message returned or raised
SchedDailySent ==
    /\ s_pc = "send_daily"
    /\ last_daily_summary_date' = ymd(s_now)
    /\ SchedContinue(2, s_now, ymd(s_now), last_weekly_summary_date, last_monthly_summary_date)
    /\ UNCHANGED <<query, grid, clock, globals, log, lock, mvars, s_now, s_now_ts, s_tuya_ok, s_is_light, history,
                   last_rollover_date, last_weekly_summary_date, last_monthly_summary_date>>

\* send_weekly_summary 562-566
SchedWeeklySent ==
    /\ s_pc = "send_weekly"
    /\ last_weekly_summary_date' = ymd(s_now)
    /\ SchedContinue(3, s_now, last_daily_summary_date, ymd(s_now), last_monthly_summary_date)
    /\ UNCHANGED <<query, grid, clock, globals, log, lock, mvars, s_now, s_now_ts, s_tuya_ok, s_is_light, history,
                   last_rollover_date, last_daily_summary_date, last_monthly_summary_date>>

\* send_monthly_summary 582-586
SchedMonthlySent ==
    /\ s_pc = "send_monthly"
    /\ last_monthly_summary_date' = ymd(s_now)
    /\ SchedContinue(4, s_now, last_daily_summary_date, last_weekly_summary_date, ymd(s_now))
    /\ UNCHANGED <<query, grid, clock, globals, log, lock, mvars, s_now, s_now_ts, s_tuya_ok, s_is_light, history,
                   last_rollover_date, last_daily_summary_date, last_weekly_summary_date>>

\* ------------------------------------------------------------------ clock
\* the instant s seconds and f ticks after hh:mm on day d
At(d, hh, mm, ss, f) == Secs(((d * 24 + hh) * 60 + mm) * 60 + ss) + f

\* around the rollover window of Tuesday 2024-01-02
GridRollover == {At(0, 23, 59, 50, 0), At(1, 0, 1, 0, 0), At(1, 0, 1, 10, 1),
                 At(1, 0, 1, 31, 0), At(1, 0, 1, 45, 0)}

\* the summary window of Monday 2024-01-01 (a Monday and a 1st) and of the Tuesday after
GridSummary == {At(0, 8, 0, 0, 0), At(0, 8, 0, 3, 0), At(0, 8, 2, 0, 0),
                At(1, 8, 0, 0, 0), At(1, 8, 2, 0, 0)}

\* three rollovers, the last MAX_LOG_DAYS after the second: the segment that the second
\* closes ends at the cutoff of the third, the one that the first closes before it
GridRetention == {At(0, 0, 0, 50, 0), At(0, 0, 1, 0, 0), At(1, 0, 1, 0, 0),
                  At(MAX_LOG_DAYS + 1, 0, 1, 0, 0), At(MAX_LOG_DAYS + 1, 0, 1, 1, 0)}

\* a first observation by the rollover, then samples 5 s and 26 s after it
GridDebounce == {At(1, 0, 1, 0, 0), At(1, 0, 1, 5, 0), At(1, 0, 1, 26, 0)}

\* a commit of the sampling loop while the poll of the rollover is in flight, and the
\* rollover of the next day
GridStale == {At(0, 0, 0, 30, 0), At(0, 0, 0, 40, 0), At(0, 0, 1, 0, 0), At(0, 0, 1, 5, 0),
              At(1, 0, 1, 0, 0)}

Grids == {GridRollover, GridSummary, GridRetention, GridDebounce, GridStale}

\* the clock moves to the next instant of the grid, unless an await that is bounded in
\* time (the poll, a send, a sleep or a hand-over with the lock held) has to end first
Tick ==
    /\ \E t \in grid :
        /\ t > clock
        /\ \A u \in grid : u > clock => t <= u
        /\ m_pc = "poll" => t <= m_now_ts + Secs(POLL_TIMEOUT)
        /\ s_pc = "poll" => t <= s_now_ts + Secs(POLL_TIMEOUT)
        /\ m_pc \in {"send_forced", "send_commit"} => t <= m_send_start + Secs(MaxSendSecs)
        /\ s_pc \in {"send_daily", "send_weekly", "send_monthly"} => t <= s_send_start + Secs(MaxSendSecs)
        /\ clock' = t
    /\ m_pc = "sleep_locked" => clock < m_wake
    /\ ~(MonitorWaiting /\ lock = "monitor")
    /\ ~(SchedWaiting /\ lock = "sched")
    /\ UNCHANGED <<query, grid, globals, guards, log, lock, mvars, svars, sent, history>>

\* no query made
NoQuery == [op |-> "none", args |-> <<>>, res |-> <<>>]

\* ------------------------------------------------------------ specification
\* the module globals at 56-79, no state.json yet; both loops about to start
Init ==
    /\ grid \in Grids
    /\ clock = CHOOSE t \in grid : \A u \in grid : t <= u
    /\ last_online_state = "None"
    /\ last_change_time = None
    /\ segment_start_time = None
    /\ pending_state = "None"
    /\ pending_time = None
    /\ tuya_online = TRUE
    /\ offline_since = None
    /\ last_seen = None
    /\ last_rollover_date = NoDate
    /\ last_daily_summary_date = NoDate
    /\ last_weekly_summary_date = NoDate
    /\ last_monthly_summary_date = NoDate
    /\ log = <<>>
    /\ lock = "none"
    /\ m_pc = "sleep" /\ m_now_ts = None /\ m_tuya_ok = FALSE /\ m_is_light = "None"
    /\ m_wake = 0 /\ m_dur_for_message = 0 /\ m_send_start = 0 /\ m_send_ok = TRUE
    /\ s_pc = "sleep" /\ s_now = 0 /\ s_now_ts = None /\ s_tuya_ok = FALSE /\ s_is_light = "None"
    /\ s_wake = 0 /\ s_send_start = 0
    /\ sent = <<>>
    /\ hist = <<>>
    /\ rolled = <<>>
    /\ n_saved = 0
    /\ query = NoQuery

Next ==
    \/ Tick
    \/ MonitorWake
    \/ MonitorWakeLocked
    \/ MonitorPollReturn
    \/ MonitorLockAcquired
    \/ MonitorSendForcedReturn
    \/ MonitorSendCommitReturn
    \/ SchedWake
    \/ SchedGuardAcquired
    \/ SchedPollReturn
    \/ SchedBodyAcquired
    \/ SchedDailySent
    \/ SchedWeeklySent
    \/ SchedMonthlySent

Spec == Init /\ [][Next]_vars

\* Scheduling.  The event loop runs every callback that is ready: a sleep returns once
\* its time has passed, a poll returns or times out (httpx timeout, 206), a send returns
\* or raises, an asyncio.Lock that is released is handed to its waiter, and time goes on.
Fairness ==
    /\ WF_vars(Tick)
    /\ WF_vars(MonitorWake) /\ WF_vars(MonitorWakeLocked)
    /\ WF_vars(MonitorPollReturn) /\ WF_vars(MonitorLockAcquired)
    /\ WF_vars(MonitorSendForcedReturn) /\ WF_vars(MonitorSendCommitReturn)
    /\ WF_vars(SchedWake) /\ WF_vars(SchedGuardAcquired)
    /\ WF_vars(SchedPollReturn) /\ WF_vars(SchedBodyAcquired)
    /\ WF_vars(SchedDailySent) /\ WF_vars(SchedWeeklySent) /\ WF_vars(SchedMonthlySent)

\* the runs on which progress is checked: the one with the summary window and the one
\* in which the scheduler meets the lock held by the sampling loop
GridsLive == {GridSummary, GridStale}
InitLive == Init /\ grid \in GridsLive

SpecLive == InitLive /\ [][Next]_vars /\ Fairness

\* ------------------------------------------- queries to the log and calendar
\* everything but the query
program == <<clock, grid, globals, guards, log, lock, mvars, svars, sent, history>>

\* timestamps (seconds) of the entries of the logs queried, and of the range ends
EntryStamps == {5, 10}
QueryStamps == {0, 5, 10, 15}

\* log entries as save_log writes them, and the logs of up to MaxLogLen of them, in
\* every order
LogEntries == [timestamp : EntryStamps, state : {"True", "False"}, duration : {1, 2}]
Logs == UNION {[1..n -> LogEntries] : n \in 0..MaxLogLen}

\* instants around the days, Mondays and 1sts of January to March 2024
CalendarDays == {0, 1, 6, 7, 8, 30, 31, 32, 59, 60}
CalendarInstants ==
    {At(d, 0, 0, 0, 0) : d \in CalendarDays} \cup {At(d, 0, 0, 0, 1) : d \in CalendarDays}
        \cup {At(d, 8, 0, 0, 0) : d \in CalendarDays}
        \cup {At(d, 23, 59, 59, 1) : d \in CalendarDays}

\* a log file and an instant; the program's globals as at start
InitQuery ==
    /\ \/ log \in Logs /\ clock = 0
       \/ log = <<>> /\ clock \in CalendarInstants
    /\ grid = {clock}
    /\ last_online_state = "None"
    /\ last_change_time = None
    /\ segment_start_time = None
    /\ pending_state = "None"
    /\ pending_time = None
    /\ tuya_online = TRUE
    /\ offline_since = None
    /\ last_seen = None
    /\ last_rollover_date = NoDate
    /\ last_daily_summary_date = NoDate
    /\ last_weekly_summary_date = NoDate
    /\ last_monthly_summary_date = NoDate
    /\ lock = "none"
    /\ m_pc = "sleep" /\ m_now_ts = None /\ m_tuya_ok = FALSE /\ m_is_light = "None"
    /\ m_wake = 0 /\ m_dur_for_message = 0 /\ m_send_start = 0 /\ m_send_ok = TRUE
    /\ s_pc = "sleep" /\ s_now = 0 /\ s_now_ts = None /\ s_tuya_ok = FALSE /\ s_is_light = "None"
    /\ s_wake = 0 /\ s_send_start = 0
    /\ sent = <<>>
    /\ hist = <<>>
    /\ rolled = <<>>
    /\ n_saved = 0
    /\ query = NoQuery

\* summarize_range(start_ts, end_ts) is called
ApplySummarizeRange ==
    /\ query = NoQuery
    /\ \E start_ts \in QueryStamps : \E end_ts \in QueryStamps :
        query' = [op |-> "summarize_range", args |-> <<start_ts, end_ts>>,
                  res |-> <<summarize_range(log, start_ts, end_ts)>>]
    /\ UNCHANGED program

\* summarize_range is called for a range and for the two parts that mid_ts cuts it into
ApplySummarizeParts ==
    /\ query = NoQuery
    /\ \E start_ts \in QueryStamps : \E mid_ts \in QueryStamps : \E end_ts \in QueryStamps :
        /\ start_ts <= mid_ts /\ mid_ts <= end_ts
        /\ query' = [op |-> "summarize_parts", args |-> <<start_ts, mid_ts, end_ts>>,
                     res |-> <<summarize_range(log, start_ts, mid_ts),
                               summarize_range(log, mid_ts, end_ts),
                               summarize_range(log, start_ts, end_ts)>>]
    /\ UNCHANGED program

\* prev_day_range_kyiv(now) is called
ApplyPrevDayRange ==
    /\ query = NoQuery
    /\ query' = [op |-> "prev_day_range_kyiv", args |-> <<clock>>, res |-> <<prev_day_range_kyiv(clock)>>]
    /\ UNCHANGED program

\* prev_week_range_kyiv(now) is called
ApplyPrevWeekRange ==
    /\ query = NoQuery
    /\ query' = [op |-> "prev_week_range_kyiv", args |-> <<clock>>, res |-> <<prev_week_range_kyiv(clock)>>]
    /\ UNCHANGED program

\* prev_month_range_kyiv(now) is called
ApplyPrevMonthRange ==
    /\ query = NoQuery
    /\ query' = [op |-> "prev_month_range_kyiv", args |-> <<clock>>, res |-> <<prev_month_range_kyiv(clock)>>]
    /\ UNCHANGED program

NextQuery ==
    \/ ApplySummarizeRange
    \/ ApplySummarizeParts
    \/ ApplyPrevDayRange
    \/ ApplyPrevWeekRange
    \/ ApplyPrevMonthRange

SpecQuery == InitQuery /\ [][NextQuery]_vars

\* ------------------------------------------------------------------ claims
\* the polls processed by the sampling loop
MonHist == SelectSeq(hist, LAMBDA r : r.src = "monitor")

\* in h, the value of sample n has been the effective sample at every sample since
\* sample i, for DEBOUNCE_INTERVAL or longer, differs from the state committed when
\* sample i was taken, and has not been notified yet
HeldSince(h, i, n) ==
    /\ h[i].was # "None"
    /\ h[n].t - h[i].t >= Secs(DEBOUNCE_INTERVAL)
    /\ \A j \in i..n : /\ h[j].eff = h[n].eff
                       /\ h[j].eff # h[i].was
                       /\ j < n => ~h[j].fired

\* C1: the sampling loop sends a state-change notification at a sample if and only if
\* the sample's value has been the effective sample continuously for at least
\* DEBOUNCE_INTERVAL seconds with no sample equal to the old state in between, or the
\* sample is the forced-absent signal while the committed state is present.
C1_NotifyIffHeld ==
    LET h == MonHist IN
    \A n \in 1..Len(h) :
        h[n].fired <=> \/ h[n].forced /\ h[n].was = "True"
                       \/ \E i \in 1..(n - 1) : HeldSince(h, i, n)

\* in h, sample i opens a candidate (a value that differs from the committed state and
\* that the sample before did not show), every sample up to k shows it too (none of
\* them as the forced-absent signal, which is not debounced), and sample k, taken less
\* than DEBOUNCE_INTERVAL after sample i, shows the old committed state again
Flap(h, i, k) ==
    /\ h[i].was # "None"
    /\ h[i].eff # h[i].was
    /\ i = 1 \/ h[i - 1].eff # h[i].eff
    /\ \A j \in i..(k - 1) : h[j].eff = h[i].eff /\ ~h[j].forced
    /\ h[k].eff = h[i].was
    /\ h[k].t - h[i].t < Secs(DEBOUNCE_INTERVAL)

\* C2: a candidate that reverts before DEBOUNCE_INTERVAL has elapsed since the sampling
\* loop opened it produces no notification, and the log never holds a segment of the
\* candidate state that began while the candidate was open.
C2_FlapSuppression ==
    LET h == MonHist IN
    \A i \in 1..Len(h) : \A k \in (i + 1)..Len(h) :
        Flap(h, i, k) =>
            /\ \A j \in i..k : ~h[j].fired
            /\ \A x \in 1..Len(log) :
                ~ /\ log[x].state = h[i].eff
                  /\ int(h[i].t) <= log[x].timestamp - log[x].duration
                  /\ log[x].timestamp - log[x].duration <= int(h[k].t)

\* the index in h of the first poll of the unbroken streak of failed polls that ends at n
RECURSIVE StreakStart(_, _)
StreakStart(h, n) == IF n > 1 /\ ~h[n - 1].ok THEN StreakStart(h, n - 1) ELSE n

\* the age, at the failed poll n, of the failure streak it belongs to
StreakAge(h, n) == h[n].t - h[StreakStart(h, n)].t

\* the forced-absent commit of the sampling loop is awaiting its notification
ForcedCommitPending == m_pc = "send_forced" /\ lock = "monitor"

\* the committed state once poll n of the history has been processed
CommittedAfter(n) == IF n < Len(hist) THEN hist[n + 1].was ELSE last_online_state

\* C3: while the committed state is present, a failed poll whose failure streak is
\* younger than OFFLINE_TIMEOUT leaves the committed state present, and a failed poll
\* whose streak has reached OFFLINE_TIMEOUT commits absent before any other poll is
\* processed, with no successful poll needed.
C3_ReachabilityGrace ==
    \A n \in 1..Len(hist) :
        (~hist[n].ok /\ hist[n].was = "True") =>
            IF StreakAge(hist, n) < Secs(OFFLINE_TIMEOUT)
            THEN CommittedAfter(n) = "True"
            ELSE \/ CommittedAfter(n) = "False"
                 \/ n = Len(hist) /\ hist[n].src = "monitor" /\ ForcedCommitPending

\* a failure streak grew older than OFFLINE_TIMEOUT under a present state and absent
\* was committed; an earlier failed poll of the same streak had left the state alone
C3_Witness ==
    \E n \in 2..Len(hist) :
        /\ ~hist[n].ok /\ hist[n].was = "True"
        /\ StreakAge(hist, n) >= Secs(OFFLINE_TIMEOUT)
        /\ CommittedAfter(n) = "False"
        /\ \E m \in StreakStart(hist, n)..(n - 1) :
            /\ StreakStart(hist, m) = StreakStart(hist, n)
            /\ 0 < StreakAge(hist, m) /\ StreakAge(hist, m) < Secs(OFFLINE_TIMEOUT)
            /\ hist[m].was = "True" /\ CommittedAfter(m) = "True"
\* C4 as the spec words it: once initialized, segment_start_time <= last_change_time
\* and last_change_time <= now.
C4_SegmentBeforeChange ==
    last_change_time # None =>
        /\ SegmentStart <= last_change_time
        /\ last_change_time <= clock

\* C4: once initialized, last_change_time and segment_start_time are both readings of
\* the clock taken in the past: last_change_time <= now and segment_start_time <= now.
\* A rollover that sees no change moves segment_start_time past last_change_time.
C4_StampsInPast ==
    last_change_time # None =>
        /\ last_change_time <= clock
        /\ SegmentStart <= clock

\* a rollover that saw no change has left the segment start later than the change time,
\* after the sampling loop had committed a change
C4_Witness ==
    /\ last_change_time # None
    /\ segment_start_time > last_change_time
    /\ \E i \in 1..Len(rolled) : rolled[i].same
    /\ \E i \in 1..Len(sent) : sent[i].kind = "change"
\* the scheduler step in which daily_rollover_if_needed, called inside its window, finds
\* last_rollover_date equal to today and returns at 467
RolloverGuardReturn ==
    /\ s_pc \in {"sleep", "wait_lock1"}
    /\ s_pc' = "sleep"
    /\ s_now' # s_now \/ s_pc = "wait_lock1"
    /\ InRolloverWindow(s_now')
    /\ last_rollover_date = ymd(s_now')

\* no two runs of the rollover body 480-528 belong to the same calendar day
OneRolloverPerDay(r) ==
    \A i \in 1..Len(r) : \A j \in 1..Len(r) : ymd(r[i].now) = ymd(r[j].now) => i = j

\* C5: a call of daily_rollover_if_needed inside the window with last_rollover_date
\* already today changes neither the log nor last_online_state, last_change_time,
\* segment_start_time, the reachability fields or the guard dates; and the rollover body,
\* which appends at most one entry, runs at most once per calendar day.
C5_RolloverIdempotent ==
    [][ /\ RolloverGuardReturn => UNCHANGED <<log, globals, guards, rolled, n_saved>>
        /\ OneRolloverPerDay(rolled') ]_vars

\* the day's rollover has appended its entry, and a later iteration of the scheduler,
\* started inside the window of the same day, has returned at the guard
C5_Witness ==
    /\ rolled # <<>>
    /\ rolled[Len(rolled)].logged
    /\ s_pc = "sleep"
    /\ InRolloverWindow(s_now)
    /\ s_now > rolled[Len(rolled)].now
    /\ last_rollover_date = ymd(s_now)
    /\ ymd(rolled[Len(rolled)].now) = ymd(s_now)

\* the smallest and the largest instant of the run
GridMin == CHOOSE t \in grid : \A u \in grid : t <= u
GridMax == CHOOSE t \in grid : \A u \in grid : u <= t

\* the local midnights that pass during the run, as day numbers
Midnights == {k \in 0..(MAX_LOG_DAYS + 1) : GridMin < Secs(k * DAY_SECONDS) /\ Secs(k * DAY_SECONDS) <= GridMax}

\* the scheduler is awake in the rollover window of every day that begins during the run
SchedulerRunsEveryDay ==
    \A k \in Midnights : \E t \in grid : DayIndex(t) = k /\ InRolloverWindow(t)

\* C6: when the scheduler runs every day, no log entry's interval
\* [timestamp - duration, timestamp) has a local midnight in its interior.
C6_NoEntryAcrossMidnight ==
    SchedulerRunsEveryDay =>
        \A x \in 1..Len(log) : \A k \in Midnights :
            ~ /\ log[x].timestamp - log[x].duration < k * DAY_SECONDS
              /\ k * DAY_SECONDS < log[x].timestamp

\* a step that runs the rollover body 495-528 on an initialized state
RolloverStep == Len(rolled') = Len(rolled) + 1 /\ ~rolled'[Len(rolled')].init

\* the poll that the step has just processed
LastPoll == hist'[Len(hist')]

\* C7: a rollover whose effective sample equals the committed state leaves
\* last_online_state, last_change_time, the candidate and the summary guard dates
\* unchanged; it appends the segment from segment_start_time to now under the committed
\* state when that segment is at least one second long, sets segment_start_time to now
\* and last_rollover_date to today.
C7_RolloverNoChange ==
    [][ (RolloverStep /\ LastPoll.eff = last_online_state) =>
            /\ UNCHANGED <<last_online_state, last_change_time, pending_state, pending_time,
                           last_daily_summary_date, last_weekly_summary_date,
                           last_monthly_summary_date>>
            /\ segment_start_time' = s_now_ts
            /\ last_rollover_date' = ymd(s_now)
            /\ IF int(s_now_ts - SegmentStart) > 0
               THEN /\ log' # <<>>
                    /\ log'[Len(log')] = [timestamp |-> int(s_now_ts), state |-> last_online_state,
                                          duration |-> int(s_now_ts - SegmentStart)]
                    /\ \A x \in 1..(Len(log') - 1) : \E y \in 1..Len(log) : log'[x] = log[y]
               ELSE log' = log ]_vars

\* a rollover has seen the committed state again and has logged the closed segment: the
\* state's age runs on while a new segment has begun
C7_Witness ==
    /\ rolled # <<>>
    /\ rolled[Len(rolled)].same /\ rolled[Len(rolled)].logged
    /\ last_rollover_date = ymd(rolled[Len(rolled)].now)
    /\ log # <<>>
    /\ log[Len(log)].timestamp = int(segment_start_time)
    /\ log[Len(log)].state = last_online_state
    /\ last_change_time < segment_start_time

\* C8: a rollover whose poll fails still runs its body: the body closes the open segment
\* into the log, advances segment_start_time and sets last_rollover_date to today; its
\* effective sample is the committed state while the failure streak is younger than
\* OFFLINE_TIMEOUT and absent once the streak is OFFLINE_TIMEOUT old.
C8_RolloverToleratesFailure ==
    [][ /\ (s_pc \in {"poll", "wait_lock2"} /\ s_pc' # s_pc) =>
               \/ s_pc = "poll" /\ s_pc' = "wait_lock2"
               \/ Len(rolled') = Len(rolled) + 1
        /\ (Len(rolled') = Len(rolled) + 1 /\ ~LastPoll.ok) =>
               /\ last_rollover_date' = ymd(s_now)
               /\ segment_start_time' = s_now_ts
               /\ ~rolled'[Len(rolled')].init =>
                   /\ log' = CloseSegment(log, last_online_state, SegmentStart, s_now_ts, clock)
                   /\ last_online_state' =
                          (IF StreakAge(hist', Len(hist')) < Secs(OFFLINE_TIMEOUT)
                           THEN last_online_state ELSE "False") ]_vars

\* one rollover ran on a failed poll inside the grace period and kept the present state,
\* another ran on a failed poll of a streak past the grace period and committed absent;
\* both logged the segment they closed
C8_Witness ==
    /\ \E n \in 1..Len(hist) :
        /\ hist[n].src = "rollover" /\ ~hist[n].ok /\ hist[n].was = "True"
        /\ StreakAge(hist, n) >= Secs(OFFLINE_TIMEOUT)
        /\ CommittedAfter(n) = "False"
    /\ \E n \in 1..Len(hist) :
        /\ hist[n].src = "rollover" /\ ~hist[n].ok /\ hist[n].was = "True"
        /\ StreakAge(hist, n) < Secs(OFFLINE_TIMEOUT)
        /\ CommittedAfter(n) = "True"
    /\ \A i \in 1..Len(rolled) : ~rolled[i].init => rolled[i].logged
    /\ Len(rolled) >= 2
    /\ last_rollover_date = ymd(rolled[Len(rolled)].now)

\* the summaries of one kind
SentOfKind(kind) == {i \in 1..Len(sent) : sent[i].kind = kind}

\* C9: of each kind of summary at most one message is sent per calendar day, however
\* often the scheduler wakes inside the 08:00-08:04 window of that day; a weekly summary
\* is sent only on a Monday and a monthly one only on the 1st of a month.
C9_OneSummaryPerDay ==
    /\ \A kind \in {"daily", "weekly", "monthly"} :
        \A i \in SentOfKind(kind) : \A j \in SentOfKind(kind) :
            DateOf(sent[i].at) = DateOf(sent[j].at) => i = j
    /\ \A i \in SentOfKind("weekly") : Weekday(sent[i].at) = 0
    /\ \A i \in SentOfKind("monthly") : DayOfMonth(sent[i].at) = 1

\* the three summaries went out on Monday the 1st; on the Tuesday the daily summary
\* was sent, and the scheduler has since woken in the window of that day again
C9_Witness ==
    /\ \E i \in SentOfKind("weekly") : \E j \in SentOfKind("monthly") :
        \E k \in SentOfKind("daily") : \E l \in SentOfKind("daily") :
            /\ DateOf(sent[i].at) = DateOf(sent[j].at)
            /\ DateOf(sent[k].at) = DateOf(sent[i].at)
            /\ DayIndex(sent[l].at) = DayIndex(sent[k].at) + 1
            /\ DateOf(sent[l].at) = ymd(s_now)
            /\ sent[l].at < s_now
    /\ InSummaryWindow(s_now) /\ s_pc = "sleep"
    /\ last_daily_summary_date = ymd(s_now)

\* cutoff of a save_log call made now, in whole seconds
Cutoff == int(clock) - MAX_LOG_DAYS * DAY_SECONDS

\* C10: after a save_log call made at time now (in whole seconds), the log holds no entry
\* with timestamp < now - MAX_LOG_DAYS*86400, and the entries stored before the call with
\* timestamp >= that cutoff are all still there, unchanged and in their order, followed
\* by the entry just appended.
C10_Retention ==
    [][ n_saved' = n_saved + 1 =>
            /\ \A x \in 1..Len(log') : log'[x].timestamp >= Cutoff
            /\ log' # <<>>
            /\ SubSeq(log', 1, Len(log') - 1) = SelectSeq(log, LAMBDA e : e.timestamp >= Cutoff)
      ]_vars

\* save_log has dropped an entry older than its cutoff and has kept one that ends
\* exactly at the cutoff (the call that appended the last entry was made in the second in
\* which that entry ends, MAX_LOG_DAYS after the kept one)
C10_Witness ==
    /\ n_saved > Len(log)
    /\ Len(log) >= 2
    /\ \E x \in 1..(Len(log) - 1) :
        log[x].timestamp = log[Len(log)].timestamp - MAX_LOG_DAYS * DAY_SECONDS
\* the entries of state st of lg whose timestamp lies in [start_ts, end_ts)
EntriesIn(lg, st, start_ts, end_ts) ==
    {i \in 1..Len(lg) : lg[i].state = st /\ start_ts <= lg[i].timestamp /\ lg[i].timestamp < end_ts}

RECURSIVE DurationOf(_, _)
\* the sum of the durations of the entries of lg at the positions in I
DurationOf(lg, I) ==
    IF I = {} THEN 0
    ELSE LET i == CHOOSE x \in I : TRUE IN lg[i].duration + DurationOf(lg, I \ {i})

\* lg with its entries in the order p
Reordered(lg, p) == [i \in 1..Len(lg) |-> lg[p[i]]]

\* C11: summarize_range(start, end) returns the sum of the durations of the state=true
\* entries and that of the state=false entries over exactly the entries with
\* start <= timestamp < end (the entry at start counted, the one at end not), and the
\* same for every ordering of the log.
C11_SummarizeRange ==
    query.op = "summarize_range" =>
        LET start_ts == query.args[1]
            end_ts == query.args[2]
        IN
        /\ query.res[1] = <<DurationOf(log, EntriesIn(log, "True", start_ts, end_ts)),
                            DurationOf(log, EntriesIn(log, "False", start_ts, end_ts))>>
        /\ \A p \in Permutations(1..Len(log)) :
            summarize_range(Reordered(log, p), start_ts, end_ts) = query.res[1]

\* a log that is not in timestamp order, with an entry that ends at start (counted) and
\* one that ends at end (not counted), was summarized
C11_Witness ==
    /\ query.op = "summarize_range"
    /\ Len(log) = 3
    /\ log[1].timestamp = query.args[2] /\ log[1].state = "True"
    /\ log[2].timestamp = query.args[1] /\ log[2].state = "True"
    /\ log[3].timestamp = query.args[1] /\ log[3].state = "False"
    /\ query.args[1] < query.args[2]
    /\ query.res[1] = <<log[2].duration, log[3].duration>>

\* C12: for s <= m <= e, summarize_range(s, m) and summarize_range(m, e) add up,
\* component by component, to summarize_range(s, e).
C12_SummarizeAdditive ==
    query.op = "summarize_parts" =>
        /\ query.res[1][1] + query.res[2][1] = query.res[3][1]
        /\ query.res[1][2] + query.res[2][2] = query.res[3][2]

\* a range was cut at the timestamp of an entry, with entries on both sides of the cut
C12_Witness ==
    /\ query.op = "summarize_parts"
    /\ query.args[1] < query.args[2] /\ query.args[2] < query.args[3]
    /\ \E i \in 1..Len(log) : log[i].timestamp = query.args[2]
    /\ query.res[1][1] + query.res[1][2] > 0
    /\ query.res[2][1] + query.res[2][2] > 0
\* a step in which the sampling loop, after its notification attempt, commits a change
MonitorCommitStep == m_pc \in {"send_forced", "send_commit"} /\ m_pc' # m_pc

\* C13: whether bot.send_message succeeded or raised, a commit (debounced or
\* forced-absent) leaves the same last_online_state, last_change_time,
\* segment_start_time and pending transition and appends the same log entry: all of
\* them are determined by the state before the send returned.
C13_CommitIgnoresDelivery ==
    [][ MonitorCommitStep =>
            /\ last_online_state' = (IF m_pc = "send_forced" THEN "False" ELSE pending_state)
            /\ last_change_time' = m_now_ts
            /\ segment_start_time' = m_now_ts
            /\ pending_state' = "None" /\ pending_time' = None
            /\ log' = CloseSegment(log, last_online_state, SegmentStart, m_now_ts, clock) ]_vars

\* the notification of the latest change raised, and the change is committed and its
\* closed segment logged all the same
C13_Witness ==
    /\ ~m_send_ok
    /\ m_pc \in {"sleep", "sleep_locked"}
    /\ sent # <<>> /\ sent[Len(sent)].kind = "change"
    /\ last_online_state = sent[Len(sent)].to
    /\ last_change_time = m_now_ts
    /\ log # <<>> /\ log[Len(log)].timestamp = int(m_now_ts)
    /\ log[Len(log)].state # last_online_state
\* the step is taken by the sampling loop / by the scheduler loop
MonitorStep == m_pc' # m_pc
SchedStep == s_pc' # s_pc \/ rolled' # rolled

\* C14: the shared state (current state, pending transition, reachability record, the
\* four guard dates) is written only by a task that holds STATE_LOCK; in particular no
\* task writes it while the other task holds the lock.
C14_WritesUnderLock ==
    [][ /\ (MonitorStep /\ (globals' # globals \/ guards' # guards)) => lock # "sched"
        /\ (SchedStep /\ (globals' # globals \/ guards' # guards)) => lock # "monitor" ]_vars
\* the timestamp e (seconds) is a local 00:00
IsMidnight(e) == e % DAY_SECONDS = 0

\* <<year, month>> of an instant
YearMonth(now) == <<DateOf(now)[1], DateOf(now)[2]>>

\* <<start, end>> is the day before the day of now
IsPrevDay(r, now) ==
    /\ IsMidnight(r[2]) /\ Secs(r[2]) <= now /\ now < Secs(r[2] + DAY_SECONDS)
    /\ r[1] = r[2] - DAY_SECONDS

\* <<start, end>> is the Monday-aligned week before the week of now
IsPrevWeek(r, now) ==
    /\ IsMidnight(r[2]) /\ Weekday(Secs(r[2])) = 0
    /\ Secs(r[2]) <= now /\ now < Secs(r[2] + 7 * DAY_SECONDS)
    /\ r[1] = r[2] - 7 * DAY_SECONDS

\* <<start, end>> is the calendar month before the month of now
IsPrevMonth(r, now) ==
    /\ IsMidnight(r[2]) /\ DayOfMonth(Secs(r[2])) = 1
    /\ Secs(r[2]) <= now /\ YearMonth(Secs(r[2])) = YearMonth(now)
    /\ IsMidnight(r[1]) /\ DayOfMonth(Secs(r[1])) = 1
    /\ r[1] < r[2] /\ YearMonth(Secs(r[1])) = YearMonth(Secs(r[2]) - 1)

\* two half-open ranges are the same or have no instant in common
SameOrApart(r, q) == r = q \/ r[2] <= q[1] \/ q[2] <= r[1]

\* C15: prev_day_range_kyiv, prev_week_range_kyiv and prev_month_range_kyiv return
\* (start, end) with start < end <= now, end the local 00:00 that starts the current day
\* / Monday-aligned week / calendar month and start the 00:00 that starts the one
\* before; the ranges of one kind neither overlap nor leave a gap between consecutive
\* periods.
C15_PrevRanges ==
    LET now == query.args[1]
        r == query.res[1]
    IN
    /\ query.op = "prev_day_range_kyiv" =>
        /\ r[1] < r[2] /\ r[2] <= int(now) /\ IsPrevDay(r, now)
        /\ \A m \in CalendarInstants :
            /\ SameOrApart(r, prev_day_range_kyiv(m))
            /\ DayIndex(m) = DayIndex(now) + 1 => prev_day_range_kyiv(m)[1] = r[2]
    /\ query.op = "prev_week_range_kyiv" =>
        /\ r[1] < r[2] /\ r[2] <= int(now) /\ IsPrevWeek(r, now)
        /\ \A m \in CalendarInstants :
            /\ SameOrApart(r, prev_week_range_kyiv(m))
            /\ (Secs(r[2] + 7 * DAY_SECONDS) <= m /\ m < Secs(r[2] + 14 * DAY_SECONDS))
                   => prev_week_range_kyiv(m)[1] = r[2]
    /\ query.op = "prev_month_range_kyiv" =>
        /\ r[1] < r[2] /\ r[2] <= int(now) /\ IsPrevMonth(r, now)
        /\ \A m \in CalendarInstants :
            /\ SameOrApart(r, prev_month_range_kyiv(m))
            /\ YearMonth(m) = <<YearMonth(now)[1], YearMonth(now)[2] + 1>>
                   => prev_month_range_kyiv(m)[1] = r[2]

\* asked at 00:00 of 1 March 2024, the previous month is the 29 days of February and
\* ends at now
C15_Witness ==
    /\ query.op = "prev_month_range_kyiv"
    /\ query.args[1] = At(60, 0, 0, 0, 0)
    /\ query.res[1] = <<31 * DAY_SECONDS, 60 * DAY_SECONDS>>
    /\ query.res[1][2] = int(query.args[1])
\* the last state-change notification handed to Telegram
LastChangeSent ==
    LET I == SentOfKind("change") IN sent[CHOOSE i \in I : \A j \in I : j <= i]

\* C16: a debounced commit at the sample time now, with committed state old and
\* candidate new, has reported the duration now - last_change_time (whole seconds) in
\* its notification; it appends exactly one log entry {state: old, duration: now -
\* segment_start_time, timestamp: now} when that duration is > 0 and none otherwise, sets
\* last_online_state = new, last_change_time = now, segment_start_time = now and clears
\* the pending transition.
C16_DebouncedCommit ==
    [][ (m_pc = "send_commit" /\ m_pc' # m_pc) =>
            LET old == last_online_state
                new == pending_state
                entry == [timestamp |-> int(m_now_ts), state |-> old,
                          duration |-> int(m_now_ts - SegmentStart)]
            IN
            /\ new # old /\ new # "None"
            /\ LastChangeSent = [kind |-> "change", at |-> m_send_start, to |-> new,
                                 dur |-> int(m_now_ts - last_change_time),
                                 text |-> hhmm(int(m_now_ts - last_change_time))]
            /\ sent' = sent
            /\ IF entry.duration > 0
               THEN log' = SelectSeq(Append(log, entry), LAMBDA e : e.timestamp >= Cutoff)
               ELSE log' = log
            /\ last_online_state' = new
            /\ last_change_time' = m_now_ts
            /\ segment_start_time' = m_now_ts
            /\ pending_state' = "None" /\ pending_time' = None ]_vars

\* the example of the claim: present since t (the first observation, made by the
\* rollover), samples absent at t + 5 and t + 26; the commit at t + 26 has reported 26
\* seconds and logged {state: true, duration: 26, timestamp: t + 26}
C16_Witness ==
    LET t == At(1, 0, 1, 0, 0) IN
    /\ grid = GridDebounce
    /\ m_pc = "sleep"
    /\ Len(MonHist) = 2
    /\ MonHist[1].t = t + Secs(5) /\ MonHist[1].eff = "False" /\ MonHist[1].was = "True"
    /\ MonHist[2].t = t + Secs(26) /\ MonHist[2].eff = "False" /\ MonHist[2].fired
    /\ Len(sent) = 1 /\ sent[1].to = "False" /\ sent[1].dur = 26
    /\ log = <<[timestamp |-> int(t) + 26, state |-> "True", duration |-> 26]>>
    /\ last_online_state = "False"
    /\ last_change_time = t + Secs(26) /\ segment_start_time = t + Secs(26)
    /\ pending_state = "None" /\ pending_time = None
\* the sampling loop processes a failed poll whose failure streak is younger than
\* OFFLINE_TIMEOUT; the poll processed before it was one of its own too
GraceSampleStep ==
    /\ Len(hist') = Len(hist) + 1
    /\ Len(hist) > 0 /\ hist[Len(hist)].src = "monitor"
    /\ LET r == hist'[Len(hist')] IN
       r.src = "monitor" /\ ~r.ok /\ ~r.forced /\ r.was # "None"

\* C17: on a failed poll whose failure streak is younger than the grace period, the
\* effective sample given to the debounce logic is the effective sample of the preceding
\* poll, and the pending candidate is left as it was: neither cleared nor restarted.
C17_GraceKeepsPending ==
    [][ GraceSampleStep =>
            /\ hist'[Len(hist')].eff = hist[Len(hist)].eff
            /\ pending_state' = pending_state
            /\ pending_time' = pending_time ]_vars
\* C18: every commit clears the pending transition, whichever path performs it (the
\* debounced commit, the forced-absent commit, a rollover that changes the committed
\* state); hence a pending transition that is set always has a candidate different from
\* the committed state.
C18_PendingDiffersFromCommitted ==
    pending_state # "None" => pending_state # last_online_state
\* the duration computed by the segment close of the step, when the step is one: a
\* commit of the sampling loop (388, 427) or a rollover on an initialized state (514, 522)
ClosesSegment == (m_pc \in {"send_forced", "send_commit"} /\ m_pc' # m_pc) \/ RolloverStep

ClosedDuration ==
    IF RolloverStep THEN int(s_now_ts - SegmentStart) ELSE int(m_now_ts - SegmentStart)

\* C19: after any sequence of commits and rollovers, under any interleaving, every entry
\* of the log has duration > 0, and a segment close whose computed duration is <= 0
\* leaves the log unchanged.
C19_PositiveDurations ==
    [][ /\ \A i \in 1..Len(log') : log'[i].duration > 0
        /\ (ClosesSegment /\ ClosedDuration <= 0) => log' = log ]_vars

\* a rollover has just closed a segment that starts after its own now_ts (the sampling
\* loop committed at a later sample time while the rollover's poll was in flight): the
\* computed duration is negative, and the log is the one the commit left
C19_Witness ==
    /\ Len(hist) >= 2 /\ Len(rolled) >= 1 /\ Len(log) >= 1
    /\ s_pc = "sleep"
    /\ hist[Len(hist)].src = "rollover" /\ hist[Len(hist)].was # "None"
    /\ hist[Len(hist) - 1].src = "monitor" /\ hist[Len(hist) - 1].fired
    /\ int(hist[Len(hist)].t - hist[Len(hist) - 1].t) < 0
    /\ ~rolled[Len(rolled)].init /\ ~rolled[Len(rolled)].logged
    /\ log[Len(log)].timestamp = int(hist[Len(hist) - 1].t)
    /\ segment_start_time = hist[Len(hist)].t
\* C20: in every commit the state mutation is made and saved (the log append, then
\* save_state) before the notification send is attempted: while a state-change
\* notification of the sampling loop is in flight, the transition it announces is already
\* the committed one, so no notification exists for a transition that is not recorded.
C20_PersistedBeforeNotified ==
    m_pc \in {"send_forced", "send_commit"} =>
        /\ last_online_state = LastChangeSent.to
        /\ last_change_time = m_now_ts
        /\ segment_start_time = m_now_ts
        /\ pending_state = "None"
\* the interval of the timeline that a log entry accounts for: [start, end)
EntryStart(e) == e.timestamp - e.duration

\* C21: under every interleaving of the sampling loop and the rollover the log entries
\* tile the timeline without double counting: the interval [timestamp - duration,
\* timestamp) of an appended entry does not begin before the end of the entry appended
\* before it, so no two entries overlap.
C21_NoOverlap ==
    \A i \in 1..(Len(log) - 1) : EntryStart(log[i + 1]) >= log[i].timestamp
\* C22: the timestamps of the log entries are non-decreasing in append order under
\* every interleaving of the sampling loop and the rollover, although each task reads
\* its now before its poll and may take the lock after the other task has committed with
\* a later now.
C22_TimestampsNonDecreasing ==
    \A i \in 1..(Len(log) - 1) : log[i].timestamp <= log[i + 1].timestamp

\* a task has closed a segment with a now older than the end of the last entry (which
\* moved segment_start_time back, so that the next entry begins before that end), and
\* the next entry has been appended after it
C22_Witness ==
    /\ Len(log) >= 2
    /\ \E i \in 1..(Len(log) - 1) :
        /\ EntryStart(log[i + 1]) < log[i].timestamp
        /\ log[i].timestamp < log[i + 1].timestamp
    /\ \E j \in 1..Len(hist) : hist[j].src = "monitor" /\ hist[j].fired
    /\ \E k \in 1..Len(rolled) : ~rolled[k].init /\ rolled[k].logged
\* a step that changes the committed state after its initialization
CommittedStateChanges == last_online_state # "None" /\ last_online_state' # last_online_state

\* C23: every change of last_online_state after initialization, whether made by a
\* debounced commit, a forced-absent commit or a rollover, comes with one state-change
\* notification attempt for that change: the last notification handed to Telegram
\* announces the new state and the time spent in the old one.
C23_ChangeIsNotified ==
    [][ CommittedStateChanges =>
            /\ SentOfKind("change") # {}
            /\ LastChangeSent.to = last_online_state'
            /\ LastChangeSent.dur = int(last_change_time' - last_change_time) ]_vars
\* a call of daily_rollover_if_needed made inside the window is under way (waiting for
\* the lock at 465 or 480, or polling) and no rollover has been recorded for its day
RolloverUnderWay ==
    /\ s_pc \in {"wait_lock1", "poll", "wait_lock2"}
    /\ last_rollover_date # ymd(s_now)

\* the sleep that the sampling loop takes with the lock held ends after the last instant
\* of the run: within the run it does not return
SleepOutlastsRun == m_pc = "sleep_locked" /\ m_wake > GridMax

\* C24: a rollover called inside the 00:01-00:04 window with last_rollover_date
\* different from today eventually acquires STATE_LOCK and completes with
\* last_rollover_date = today, provided every poll, sleep and send of the sampling loop
\* returns; and the sampling loop, which holds the lock across its send and across the
\* sleep after its first observation and after a forced commit, always eventually
\* releases it.
C24_RolloverLiveness ==
    /\ RolloverUnderWay ~> (last_rollover_date = ymd(s_now) \/ SleepOutlastsRun)
    /\ (lock = "monitor") ~> (lock # "monitor" \/ SleepOutlastsRun)
\* a rollover has completed for the day of its call after it had to wait for the lock:
\* the call was made at s_now, and the lock at 465 was only obtained later, so that the
\* now_ts read at 469 is later than s_now
C24_Witness ==
    /\ s_pc = "sleep"
    /\ Len(rolled) >= 1 /\ rolled[Len(rolled)].now = s_now
    /\ s_now < s_now_ts
    /\ InRolloverWindow(s_now)
    /\ last_rollover_date = ymd(s_now)
    /\ lock # "sched"
====
